---- MODULE Spec2Model ----
(***************************************************************************)
(* keep2notion: the sync orchestration workflow.                           *)
(*                                                                         *)
(* The model follows services/sync_service/orchestrator.py (a run of       *)
(* SyncOrchestrator.execute_sync), services/sync_service/main.py (the      *)
(* execute and abort endpoints), services/api_gateway/main.py (start_sync) *)
(* and shared/db_operations.py (the store operations).                     *)
(*                                                                         *)
(* Granularity.  Every store operation opens its own session and commits   *)
(* (db_operations.py, "with self.get_session() as session"); nothing makes *)
(* a sequence of store operations of execute_sync atomic, so each store    *)
(* call of execute_sync is one step, and so is each awaited call to        *)
(* another service, whose outcome the environment chooses.  abort_sync has *)
(* no await between its store calls and is one step.  The gateway is       *)
(* another process; each of its store calls and its awaited call is one    *)
(* step.                                                                   *)
(*                                                                         *)
(* Scope.  One start request is followed per behaviour: it reaches the     *)
(* sync service directly or through the gateway.  A store call of          *)
(* execute_sync may raise without committing; at most MaxFaults store      *)
(* errors are injected.  At most MaxAborts abort requests arrive.          *)
(***************************************************************************)
EXTENDS Integers, Sequences, FiniteSets, Bags, TLC

\* ------------------------------------------------------------------ bounds

MaxNotes == 2
MaxFaults == 1
MaxAborts == 2
MaxCalls == 4
MaxIncrements == 1

\* ------------------------------------------------------------------ values

None == <<>>
Some(x) == <<x>>

JobIds == {"j1"}
Users == {"alice", "bob"}
NoteIds == {"n1", "n2"}
Runs == {"r1"}

TerminalStatuses == {"completed", "failed", "cancelled"}

\* datetime.isoformat() and datetime.fromisoformat(): a timestamp t becomes
\* the string [iso |-> t] and back.
isoformat(t) == [iso |-> t]
fromisoformat(s) == s.iso

\* The note records the Keep extractor can return (id, modified_at as an ISO
\* string); title, content, labels and images are passed through unread.
NoteRecords ==
    { [id |-> "n1", modified_at |-> isoformat(1)],
      [id |-> "n2", modified_at |-> isoformat(2)] }

RECURSIVE SeqsUpTo(_, _)
SeqsUpTo(S, n) ==
    IF n = 0 THEN { <<>> }
    ELSE LET shorter == SeqsUpTo(S, n - 1)
         IN  shorter \cup { Append(s, x) : s \in { q \in shorter : Len(q) = n - 1 }, x \in S }

NoteLists == SeqsUpTo(NoteRecords, MaxNotes)

\* ------------------------------------------------------------------ state

VARIABLES
    jobs,          \* table sync_jobs: job_id -> row (the domain is the set of rows)
    syncState,     \* table sync_state: a set of rows
    logs,          \* table sync_logs: a bag of rows
    credentials,   \* table credentials: a set of rows
    clock,         \* datetime.utcnow() as seen by the store
    run,           \* per invocation of SyncOrchestrator.execute_sync: its locals and position
    abort,         \* the last abort_sync request and its response
    aborts,        \* number of abort_sync requests received so far
    gw,            \* the gateway's start_sync handler: its locals and position
    faults,        \* number of store errors raised so far
    keepCalls,     \* requests received by the Keep extractor
    sinkCalls,     \* requests received by the Notion writer
    notifications, \* calls of send_critical_error_notification, in order
    call,          \* the last direct call of a store operation or of get_sync_status
    inc,           \* per caller: its session inside increment_sync_job_progress
    retry          \* a call of a function wrapped by handle_rate_limit: its locals and position

vars == <<jobs, syncState, logs, credentials, clock, run, abort, aborts, gw,
          faults, keepCalls, sinkCalls, notifications, call, inc, retry>>

\* ------------------------------------------------------------------ store operations

\* SyncJob(job_id, user_id, status='queued', full_sync) with the column
\* defaults; created_at is the server's now().
NewSyncJob(user_id, full_sync, now) ==
    [ user_id |-> user_id, status |-> "queued", full_sync |-> full_sync,
      total_notes |-> 0, processed_notes |-> 0, failed_notes |-> 0,
      error_message |-> None, created_at |-> now, completed_at |-> None ]

\* A variant of the insert that never raises (the row that is there stays).
create_sync_job_raises_never(js, job_id) == FALSE

\* job_id is the primary key of sync_jobs: session.add + commit of a second row
\* with the same job_id raises IntegrityError.
create_sync_job_raises(js, job_id) == job_id \in DOMAIN js

create_sync_job(js, job_id, user_id, full_sync, now) ==
    js @@ (job_id :> NewSyncJob(user_id, full_sync, now))

\* The keyword arguments of update_sync_job, all defaulting to None.
NoUpdate ==
    [ status |-> None, total_notes |-> None, processed_notes |-> None,
      failed_notes |-> None, error_message |-> None, completed_at |-> None ]

update_sync_job(js, job_id, u) ==
    IF job_id \notin DOMAIN js THEN js
    ELSE [ js EXCEPT ![job_id] =
             [ @ EXCEPT
                 !.status = IF u.status # None THEN u.status[1] ELSE @,
                 !.total_notes = IF u.total_notes # None THEN u.total_notes[1] ELSE @,
                 !.processed_notes = IF u.processed_notes # None THEN u.processed_notes[1] ELSE @,
                 !.failed_notes = IF u.failed_notes # None THEN u.failed_notes[1] ELSE @,
                 !.error_message = IF u.error_message # None THEN u.error_message ELSE @,
                 !.completed_at = IF u.completed_at # None THEN u.completed_at ELSE @ ] ]

get_sync_job(js, job_id) ==
    IF job_id \in DOMAIN js THEN Some(js[job_id]) ELSE None

\* The defaults of increment_sync_job_progress(job_id, processed=1, failed=0).
DefaultProcessed == 1
DefaultFailed == 0

\* A variant that counts every note it is told about as processed.
increment_sync_job_progress_all_processed(js, job_id, processed, failed) ==
    IF job_id \notin DOMAIN js THEN js
    ELSE [ js EXCEPT ![job_id] =
             [ @ EXCEPT !.processed_notes = @ + processed + failed ] ]

\* Read the row, add to both counters, write it back, in one session.
increment_sync_job_progress(js, job_id, processed, failed) ==
    IF job_id \notin DOMAIN js THEN js
    ELSE [ js EXCEPT ![job_id] =
             [ @ EXCEPT !.processed_notes = @ + processed,
                        !.failed_notes = @ + failed ] ]

\* sync_logs.job_id is a foreign key to sync_jobs.job_id.
add_sync_log_raises(js, job_id) == job_id \notin DOMAIN js

add_sync_log(lg, job_id, level, message, keep_note_id) ==
    lg (+) SetToBag({ [ job_id |-> job_id, level |-> level, message |-> message,
                        keep_note_id |-> keep_note_id ] })

get_sync_state_by_user(ss, user_id) == { row \in ss : row.user_id = user_id }

\* A variant whose query filters on keep_note_id alone.
get_sync_record_any_user(ss, user_id, keep_note_id) ==
    LET found == { row \in ss : row.keep_note_id = keep_note_id }
    IN  IF found = {} THEN None ELSE Some(CHOOSE row \in found : TRUE)

\* scalar_one_or_none(): the row, or None.
get_sync_record(ss, user_id, keep_note_id) ==
    LET found == { row \in ss : row.user_id = user_id /\ row.keep_note_id = keep_note_id }
    IN  IF found = {} THEN None ELSE Some(CHOOSE row \in found : TRUE)

\* A variant that writes the time of the call into keep_modified_at too.
upsert_sync_state_stamps_modified(ss, user_id, keep_note_id, notion_page_id, keep_modified_at, now) ==
    LET conflict == { row \in ss : row.user_id = user_id /\ row.keep_note_id = keep_note_id }
        written == [ user_id |-> user_id, keep_note_id |-> keep_note_id,
                     notion_page_id |-> notion_page_id,
                     keep_modified_at |-> now,
                     last_synced_at |-> now ]
    IN  (ss \ conflict) \cup { written }

\* A variant whose conflict clause keeps the row that is there.
upsert_sync_state_do_nothing(ss, user_id, keep_note_id, notion_page_id, keep_modified_at, now) ==
    LET conflict == { row \in ss : row.user_id = user_id /\ row.keep_note_id = keep_note_id }
        written == [ user_id |-> user_id, keep_note_id |-> keep_note_id,
                     notion_page_id |-> notion_page_id,
                     keep_modified_at |-> keep_modified_at,
                     last_synced_at |-> now ]
    IN  IF conflict = {} THEN ss \cup { written } ELSE ss

\* INSERT ... ON CONFLICT (user_id, keep_note_id) DO UPDATE.
upsert_sync_state(ss, user_id, keep_note_id, notion_page_id, keep_modified_at, now) ==
    LET conflict == { row \in ss : row.user_id = user_id /\ row.keep_note_id = keep_note_id }
        written == [ user_id |-> user_id, keep_note_id |-> keep_note_id,
                     notion_page_id |-> notion_page_id,
                     keep_modified_at |-> keep_modified_at,
                     last_synced_at |-> now ]
    IN  (ss \ conflict) \cup { written }

\* A variant whose query does not filter on user_id.
get_credentials_unfiltered(cs, user_id) ==
    IF cs = {} THEN None ELSE Some(CHOOSE c \in cs : TRUE)

get_credentials(cs, user_id) ==
    LET found == { c \in cs : c.user_id = user_id }
    IN  IF found = {} THEN None ELSE Some(CHOOSE c \in found : TRUE)

\* max(last_sync_times)
MaxOf(ts) == CHOOSE t \in ts : \A t2 \in ts : t >= t2

\* A variant that computes the window of an incremental sync for a full sync too.
FetchWindow_ignores_full_sync(ss, user_id, full_sync) ==
    LET sync_state == get_sync_state_by_user(ss, user_id)
    IN  IF sync_state = {} THEN None
        ELSE Some(isoformat(MaxOf({ record.last_synced_at : record \in sync_state })))

\* orchestrator.py, step 2: the lower bound of the fetch window.
FetchWindow(ss, user_id, full_sync) ==
    IF full_sync THEN None
    ELSE LET sync_state == get_sync_state_by_user(ss, user_id)
         IN  IF sync_state = {} THEN None
             ELSE Some(isoformat(MaxOf({ record.last_synced_at : record \in sync_state })))

\* ------------------------------------------------------------------ initial state

\* keep_extractor/main.py 256-260 and extractor.py 61-65: a note passes the
\* filter unless it was updated before modified_since.
InFetchWindow(note_modified, modified_since) ==
    IF modified_since # None
    THEN ~(note_modified < fromisoformat(modified_since[1]))
    ELSE TRUE

Row(user_id, keep_note_id, by, last_synced_at, keep_modified_at) ==
    [ user_id |-> user_id, keep_note_id |-> keep_note_id,
      notion_page_id |-> [by |-> by, idx |-> 0],
      keep_modified_at |-> keep_modified_at, last_synced_at |-> last_synced_at ]

\* What earlier runs can have left in sync_state (one row per user and note).
InitialSyncStates ==
    { {},
      { Row("alice", "n1", "earlier", 1, 1) },
      { Row("alice", "n1", "earlier", 2, 1), Row("alice", "n2", "earlier", 1, 2) },
      { Row("alice", "n2", "earlier", 1, 2), Row("bob", "n1", "other", 2, 1) } }

InitialRows == UNION InitialSyncStates

IdleRun ==
    [ pc |-> "idle", job_id |-> "j1", user_id |-> "alice", full_sync |-> FALSE,
      credentials |-> None, modified_since |-> None, notes |-> <<>>, i |-> 0,
      total_notes |-> 0, processed_count |-> 0, failed_count |-> 0,
      existing |-> None, notion_page_id |-> None, result |-> "none",
      error_msg |-> None, returned |-> None,
      fetched |-> FALSE, fetch_failed |-> FALSE,
      upserted |-> {}, store_failed |-> FALSE ]

\* No abort request answered yet.
IdleAbort == [ job_id |-> "j1", code |-> "", status |-> "" ]

\* Callers of the store that hold a session of their own.
Callers == {"c1", "c2"}

\* A caller outside increment_sync_job_progress; added_processed and
\* added_failed sum the deltas of the calls it has completed.
IdleSession ==
    [ pc |-> "idle", job_id |-> "j1", processed |-> 0, failed |-> 0, row |-> None,
      calls |-> 0, added_processed |-> 0, added_failed |-> 0 ]

NoCall ==
    [ n |-> 0, op |-> "none", args |-> <<>>, response |-> <<>>,
      prev |-> [ op |-> "none", args |-> <<>> ] ]

IdleGateway ==
    [ pc |-> "idle", job_id |-> "j1", user_id |-> "alice", full_sync |-> FALSE,
      response |-> None ]

\* A call of a wrapped page-sink function that has not been made yet: attempts
\* is what each await of func gave so far, in order.
IdleRetry ==
    [ pc |-> "idle", func |-> "", retries |-> 0, attempts |-> <<>>,
      retry_after |-> None, returned |-> None, raised |-> None ]

Init ==
    /\ jobs = <<>>
    /\ syncState \in InitialSyncStates
    /\ logs = EmptyBag
    /\ credentials = { [ user_id |-> "alice", notion_database_id |-> "db-alice" ] }
    /\ clock = MaxOf({ row.last_synced_at : row \in InitialRows } \cup {0}) + 1
    /\ run = [ r \in Runs |-> IdleRun ]
    /\ abort = IdleAbort
    /\ aborts = 0
    /\ gw = IdleGateway
    /\ faults = 0
    /\ keepCalls = {}
    /\ sinkCalls = {}
    /\ notifications = <<>>
    /\ call = NoCall
    /\ inc = [ c \in Callers |-> IdleSession ]
    /\ retry = IdleRetry

\* ------------------------------------------------------------------ execute_sync

Goto(r, pc) == [ run EXCEPT ![r].pc = pc ]

\* A store operation of execute_sync raises: nothing is committed and control
\* moves to the handler enclosing the call; locals holds the task's local
\* variables as they are when the call is made.
StoreRaisesFrom(r, handler, locals) ==
    /\ faults < MaxFaults
    /\ faults' = faults + 1
    /\ run' = [ run EXCEPT ![r] = [ locals EXCEPT !.pc = handler,
                                                  !.error_msg = Some("store error"),
                                                  !.store_failed = TRUE ] ]
    /\ UNCHANGED <<retry, call, inc, jobs, syncState, logs, credentials, clock, abort, aborts, gw,
                   keepCalls, sinkCalls, notifications>>

StoreRaises(r, handler) == StoreRaisesFrom(r, handler, run[r])

\* POST /internal/sync/execute: the endpoint takes the caller's job_id or a
\* generated one, adds orchestrator.execute_sync as a background task and returns.
execute_endpoint(r) ==
    /\ run[r].pc = "idle"
    /\ gw.pc = "idle"
    /\ \E job_id \in JobIds, user_id \in Users, full_sync \in BOOLEAN :
         run' = [ run EXCEPT ![r].pc = "create", ![r].job_id = job_id,
                             ![r].user_id = user_id, ![r].full_sync = full_sync ]
    /\ UNCHANGED <<retry, call, inc, jobs, syncState, logs, credentials, clock, abort, aborts, gw,
                   faults, keepCalls, sinkCalls, notifications>>

\* orchestrator.py 70-74, outside the try: an error ends the task.
exec_create_job(r) ==
    /\ run[r].pc = "create"
    /\ \/ /\ ~create_sync_job_raises(jobs, run[r].job_id)
          /\ jobs' = create_sync_job(jobs, run[r].job_id, run[r].user_id, run[r].full_sync, clock)
          /\ run' = Goto(r, "set_running")
          /\ UNCHANGED <<retry, call, inc, syncState, logs, credentials, clock, abort, aborts, gw,
                         faults, keepCalls, sinkCalls, notifications>>
       \/ /\ create_sync_job_raises(jobs, run[r].job_id)
          /\ run' = [ run EXCEPT ![r].pc = "crashed", ![r].error_msg = Some("IntegrityError") ]
          /\ UNCHANGED <<retry, call, inc, jobs, syncState, logs, credentials, clock, abort, aborts, gw,
                         faults, keepCalls, sinkCalls, notifications>>
       \/ StoreRaises(r, "crashed")

\* orchestrator.py 77, outside the try.
exec_set_running(r) ==
    /\ run[r].pc = "set_running"
    /\ \/ /\ jobs' = update_sync_job(jobs, run[r].job_id,
                                     [ NoUpdate EXCEPT !.status = Some("running") ])
          /\ run' = Goto(r, "log_start")
          /\ UNCHANGED <<retry, call, inc, syncState, logs, credentials, clock, abort, aborts, gw,
                         faults, keepCalls, sinkCalls, notifications>>
       \/ StoreRaises(r, "crashed")

\* orchestrator.py 80, outside the try.
exec_log_start(r) ==
    /\ run[r].pc = "log_start"
    /\ \/ /\ ~add_sync_log_raises(jobs, run[r].job_id)
          /\ logs' = add_sync_log(logs, run[r].job_id, "INFO", "Starting sync", None)
          /\ run' = Goto(r, "load_credentials")
          /\ UNCHANGED <<retry, call, inc, jobs, syncState, credentials, clock, abort, aborts, gw,
                         faults, keepCalls, sinkCalls, notifications>>
       \/ StoreRaises(r, "crashed")

\* orchestrator.py 85-87.
exec_load_credentials(r) ==
    /\ run[r].pc = "load_credentials"
    /\ \/ /\ LET found == get_credentials(credentials, run[r].user_id)
             IN  run' = [ run EXCEPT
                            ![r].credentials = found,
                            ![r].pc = IF found = None THEN "no_credentials" ELSE "window",
                            ![r].error_msg = IF found = None
                                             THEN Some("No credentials found for user")
                                             ELSE @ ]
          /\ UNCHANGED <<retry, call, inc, jobs, syncState, logs, credentials, clock, abort, aborts, gw,
                         faults, keepCalls, sinkCalls, notifications>>
       \/ StoreRaises(r, "handler")

\* orchestrator.py 90-95.
exec_no_credentials(r) ==
    /\ run[r].pc = "no_credentials"
    /\ \/ /\ jobs' = update_sync_job(jobs, run[r].job_id,
                        [ NoUpdate EXCEPT !.status = Some("failed"),
                                          !.error_message = run[r].error_msg,
                                          !.completed_at = Some(clock) ])
          /\ run' = Goto(r, "no_credentials_log")
          /\ UNCHANGED <<retry, call, inc, syncState, logs, credentials, clock, abort, aborts, gw,
                         faults, keepCalls, sinkCalls, notifications>>
       \/ StoreRaises(r, "handler")

\* orchestrator.py 96.
exec_no_credentials_log(r) ==
    /\ run[r].pc = "no_credentials_log"
    /\ \/ /\ ~add_sync_log_raises(jobs, run[r].job_id)
          /\ logs' = add_sync_log(logs, run[r].job_id, "ERROR",
                                  "No credentials found for user", None)
          /\ run' = Goto(r, "no_credentials_notify")
          /\ UNCHANGED <<retry, call, inc, jobs, syncState, credentials, clock, abort, aborts, gw,
                         faults, keepCalls, sinkCalls, notifications>>
       \/ StoreRaises(r, "handler")

\* orchestrator.py 99-110: the notification never raises; then return failed.
exec_no_credentials_notify(r) ==
    /\ run[r].pc = "no_credentials_notify"
    /\ notifications' = Append(notifications,
                               [ job_id |-> run[r].job_id, stage |-> "credential_loading" ])
    /\ run' = [ run EXCEPT ![r].pc = "done", ![r].returned = Some("failed") ]
    /\ UNCHANGED <<retry, call, inc, jobs, syncState, logs, credentials, clock, abort, aborts, gw,
                   faults, keepCalls, sinkCalls>>

\* orchestrator.py 114-124.
exec_window(r) ==
    /\ run[r].pc = "window"
    /\ \/ /\ run' = [ run EXCEPT
                        ![r].modified_since = FetchWindow(syncState, run[r].user_id,
                                                          run[r].full_sync),
                        ![r].pc = "log_fetch" ]
          /\ UNCHANGED <<retry, call, inc, jobs, syncState, logs, credentials, clock, abort, aborts, gw,
                         faults, keepCalls, sinkCalls, notifications>>
       \/ /\ ~run[r].full_sync
          /\ StoreRaises(r, "handler")

\* orchestrator.py 126-130.
exec_log_fetch(r) ==
    /\ run[r].pc = "log_fetch"
    /\ \/ /\ ~add_sync_log_raises(jobs, run[r].job_id)
          /\ logs' = add_sync_log(logs, run[r].job_id, "INFO", "Fetching notes from Keep", None)
          /\ run' = Goto(r, "keep_auth")
          /\ UNCHANGED <<retry, call, inc, jobs, syncState, credentials, clock, abort, aborts, gw,
                         faults, keepCalls, sinkCalls, notifications>>
       \/ StoreRaises(r, "handler")

\* A variant that does not check the status of the auth response.
exec_keep_auth_unchecked(r) ==
    /\ run[r].pc = "keep_auth"
    /\ keepCalls' = keepCalls \cup
           { [ run |-> r, endpoint |-> "auth", username |-> run[r].user_id,
               modified_since |-> None ] }
    /\ \E outcome \in {"authenticated", "rejected", "transport_error"} :
         run' = [ run EXCEPT
                    ![r].pc = IF outcome = "transport_error" THEN "handler" ELSE "keep_notes",
                    ![r].fetch_failed = (outcome # "authenticated"),
                    ![r].error_msg =
                        IF outcome = "transport_error" THEN Some("transport error") ELSE @ ]
    /\ UNCHANGED <<retry, call, inc, jobs, syncState, logs, credentials, clock, abort, aborts, gw,
                   faults, sinkCalls, notifications>>

\* orchestrator.py 269-282: POST /internal/keep/auth.
exec_keep_auth(r) ==
    /\ run[r].pc = "keep_auth"
    /\ keepCalls' = keepCalls \cup
           { [ run |-> r, endpoint |-> "auth", username |-> run[r].user_id,
               modified_since |-> None ] }
    /\ \E outcome \in {"authenticated", "rejected", "transport_error"} :
         run' = [ run EXCEPT
                    ![r].pc = IF outcome = "authenticated" THEN "keep_notes" ELSE "handler",
                    ![r].fetch_failed = (outcome # "authenticated"),
                    ![r].error_msg =
                        CASE outcome = "authenticated" -> @
                          [] outcome = "rejected" -> Some("Keep authentication failed")
                          [] OTHER -> Some("transport error") ]
    /\ UNCHANGED <<retry, call, inc, jobs, syncState, logs, credentials, clock, abort, aborts, gw,
                   faults, sinkCalls, notifications>>

\* orchestrator.py 285-312 and 140: GET /internal/keep/notes.  params carries
\* modified_since when it is set (an ISO string is never empty).
exec_keep_notes(r) ==
    /\ run[r].pc = "keep_notes"
    /\ keepCalls' = keepCalls \cup
           { [ run |-> r, endpoint |-> "notes", username |-> run[r].user_id,
               modified_since |-> run[r].modified_since ] }
    /\ \/ \E notes \in NoteLists :
            run' = [ run EXCEPT ![r].pc = "set_total", ![r].notes = notes,
                                ![r].total_notes = Len(notes), ![r].fetched = TRUE ]
       \/ \E error \in {"Failed to fetch notes from Keep", "transport error"} :
            run' = [ run EXCEPT ![r].pc = "handler", ![r].error_msg = Some(error),
                                ![r].fetch_failed = TRUE ]
    /\ UNCHANGED <<retry, call, inc, jobs, syncState, logs, credentials, clock, abort, aborts, gw,
                   faults, sinkCalls, notifications>>

\* orchestrator.py 144.
exec_set_total(r) ==
    /\ run[r].pc = "set_total"
    /\ \/ /\ jobs' = update_sync_job(jobs, run[r].job_id,
                        [ NoUpdate EXCEPT !.total_notes = Some(run[r].total_notes) ])
          /\ run' = Goto(r, "log_fetched")
          /\ UNCHANGED <<retry, call, inc, syncState, logs, credentials, clock, abort, aborts, gw,
                         faults, keepCalls, sinkCalls, notifications>>
       \/ StoreRaises(r, "handler")

\* A variant that treats an empty note list as an error of the run.
AtNote_empty_is_error(locals, i) ==
    IF i <= Len(locals.notes)
    THEN [ locals EXCEPT !.pc = "lookup", !.i = i, !.existing = None,
                         !.notion_page_id = None, !.result = "none" ]
    ELSE [ locals EXCEPT !.pc = IF Len(locals.notes) = 0 THEN "handler" ELSE "finalize",
                         !.error_msg = IF Len(locals.notes) = 0 THEN Some("No notes") ELSE @,
                         !.i = i, !.existing = None,
                         !.notion_page_id = None, !.result = "none" ]

\* The for loop of orchestrator.py 156: the locals at the start of note i.
AtNote(locals, i) ==
    IF i <= Len(locals.notes)
    THEN [ locals EXCEPT !.pc = "lookup", !.i = i, !.existing = None,
                         !.notion_page_id = None, !.result = "none" ]
    ELSE [ locals EXCEPT !.pc = "finalize", !.i = i, !.existing = None,
                         !.notion_page_id = None, !.result = "none" ]

\* orchestrator.py 145-156.
exec_log_fetched(r) ==
    /\ run[r].pc = "log_fetched"
    /\ \/ /\ ~add_sync_log_raises(jobs, run[r].job_id)
          /\ logs' = add_sync_log(logs, run[r].job_id, "INFO", "Fetched notes from Keep", None)
          /\ run' = [ run EXCEPT ![r] = AtNote(run[r], 1) ]
          /\ UNCHANGED <<retry, call, inc, jobs, syncState, credentials, clock, abort, aborts, gw,
                         faults, keepCalls, sinkCalls, notifications>>
       \/ StoreRaises(r, "handler")

CurrentNote(r) == run[r].notes[run[r].i]

\* A variant with a cancellation checkpoint: a cancelled job ends the loop.
exec_lookup_checks_cancelled(r) ==
    /\ run[r].pc = "lookup"
    /\ \/ /\ run' = IF jobs[run[r].job_id].status = "cancelled"
                    THEN Goto(r, "finalize")
                    ELSE [ run EXCEPT
                             ![r].existing = get_sync_record(syncState, run[r].user_id,
                                                             CurrentNote(r).id),
                             ![r].pc = "sink" ]
          /\ UNCHANGED <<retry, call, inc, jobs, syncState, logs, credentials, clock, abort, aborts,
                         gw, faults, keepCalls, sinkCalls, notifications>>
       \/ StoreRaises(r, "note_error_log")

\* orchestrator.py 340: _process_note, inside its try.
exec_lookup(r) ==
    /\ run[r].pc = "lookup"
    /\ \/ /\ run' = [ run EXCEPT
                        ![r].existing = get_sync_record(syncState, run[r].user_id,
                                                        CurrentNote(r).id),
                        ![r].pc = "sink" ]
          /\ UNCHANGED <<retry, call, inc, jobs, syncState, logs, credentials, clock, abort, aborts, gw,
                         faults, keepCalls, sinkCalls, notifications>>
       \/ StoreRaises(r, "note_error_log")

\* A variant in which a full sync creates a page whatever sync_state holds.
SinkRequest_full_sync_creates(r) ==
    IF run[r].existing # None /\ ~run[r].full_sync
    THEN [ op |-> "update", page_id |-> Some(run[r].existing[1].notion_page_id),
           database_id |-> None ]
    ELSE [ op |-> "create", page_id |-> None,
           database_id |-> Some(run[r].credentials[1].notion_database_id) ]

\* The request _process_note sends: PATCH the existing page (342-358) or POST
\* a new page into the user's database (366-383).
SinkRequest(r) ==
    IF run[r].existing # None
    THEN [ op |-> "update", page_id |-> Some(run[r].existing[1].notion_page_id),
           database_id |-> None ]
    ELSE [ op |-> "create", page_id |-> None,
           database_id |-> Some(run[r].credentials[1].notion_database_id) ]

\* The page id in the Notion writer's answer: the page given to update_page,
\* a new page from create_page.
SinkPageId(r, request) ==
    IF request.op = "update" THEN request.page_id[1]
    ELSE [ by |-> r, idx |-> run[r].i ]

\* orchestrator.py 346-389: the awaited call to the Notion writer.
exec_sink(r) ==
    /\ run[r].pc = "sink"
    /\ \E outcome \in {"success", "bad_status", "transport_error"} :
         LET request == SinkRequest(r) IN
         /\ sinkCalls' = sinkCalls \cup
                { [ run |-> r, idx |-> run[r].i, keep_note_id |-> CurrentNote(r).id,
                    op |-> request.op, page_id |-> request.page_id,
                    database_id |-> request.database_id, ok |-> (outcome = "success") ] }
         /\ run' = IF outcome = "success"
                   THEN [ run EXCEPT ![r].pc = "upsert",
                                     ![r].notion_page_id = Some(SinkPageId(r, request)) ]
                   ELSE Goto(r, "note_error_log")
    /\ UNCHANGED <<retry, call, inc, jobs, syncState, logs, credentials, clock, abort, aborts, gw,
                   faults, keepCalls, notifications>>

\* orchestrator.py 392-399.
exec_upsert(r) ==
    /\ run[r].pc = "upsert"
    /\ \/ /\ syncState' = upsert_sync_state(syncState, run[r].user_id, CurrentNote(r).id,
                                            run[r].notion_page_id[1],
                                            fromisoformat(CurrentNote(r).modified_at), clock)
          /\ clock' = clock + 1
          /\ run' = [ run EXCEPT ![r].pc = "note_ok_log",
                                 ![r].upserted = @ \cup { run[r].i } ]
          /\ UNCHANGED <<retry, call, inc, jobs, logs, credentials, abort, aborts, gw,
                         faults, keepCalls, sinkCalls, notifications>>
       \/ StoreRaises(r, "note_error_log")

\* orchestrator.py 403-414.
exec_note_ok_log(r) ==
    /\ run[r].pc = "note_ok_log"
    /\ \/ /\ ~add_sync_log_raises(jobs, run[r].job_id)
          /\ logs' = add_sync_log(logs, run[r].job_id, "INFO", "Successfully synced note",
                                  Some(CurrentNote(r).id))
          /\ run' = [ run EXCEPT ![r].pc = "progress", ![r].result = "success" ]
          /\ UNCHANGED <<retry, call, inc, jobs, syncState, credentials, clock, abort, aborts, gw,
                         faults, keepCalls, sinkCalls, notifications>>
       \/ StoreRaises(r, "note_error_log")

\* orchestrator.py 416-430: the except of _process_note; an error here leaves
\* _process_note and is caught by the loop's except.
exec_note_error_log(r) ==
    /\ run[r].pc = "note_error_log"
    /\ \/ /\ ~add_sync_log_raises(jobs, run[r].job_id)
          /\ logs' = add_sync_log(logs, run[r].job_id, "ERROR", "Failed to process note",
                                  Some(CurrentNote(r).id))
          /\ run' = [ run EXCEPT ![r].pc = "progress", ![r].result = "failed" ]
          /\ UNCHANGED <<retry, call, inc, jobs, syncState, credentials, clock, abort, aborts, gw,
                         faults, keepCalls, sinkCalls, notifications>>
       \/ StoreRaises(r, "loop_error_log")

\* A variant that counts the successes only.
Counted_successes_only(locals) ==
    IF locals.result = "success"
    THEN [ locals EXCEPT !.processed_count = @ + 1 ]
    ELSE locals

\* orchestrator.py 166-169: the in-memory counts.
Counted(locals) ==
    IF locals.result = "success"
    THEN [ locals EXCEPT !.processed_count = @ + 1 ]
    ELSE [ locals EXCEPT !.failed_count = @ + 1 ]

\* orchestrator.py 166-178.
exec_progress(r) ==
    /\ run[r].pc = "progress"
    /\ \/ /\ jobs' = increment_sync_job_progress(jobs, run[r].job_id,
                        IF run[r].result = "success" THEN 1 ELSE 0,
                        IF run[r].result = "failed" THEN 1 ELSE 0)
          /\ run' = [ run EXCEPT ![r] = AtNote(Counted(run[r]), run[r].i + 1) ]
          /\ UNCHANGED <<retry, call, inc, syncState, logs, credentials, clock, abort, aborts, gw,
                         faults, keepCalls, sinkCalls, notifications>>
       \/ StoreRaisesFrom(r, "loop_error_log", Counted(run[r]))

\* orchestrator.py 180-194: the except of the loop body.
exec_loop_error_log(r) ==
    /\ run[r].pc = "loop_error_log"
    /\ LET locals == [ run[r] EXCEPT !.failed_count = @ + 1 ] IN
       \/ /\ ~add_sync_log_raises(jobs, run[r].job_id)
          /\ logs' = add_sync_log(logs, run[r].job_id, "ERROR", "Failed to process note",
                                  Some(CurrentNote(r).id))
          /\ run' = [ run EXCEPT ![r] = [ locals EXCEPT !.pc = "loop_error_progress" ] ]
          /\ UNCHANGED <<retry, call, inc, jobs, syncState, credentials, clock, abort, aborts, gw,
                         faults, keepCalls, sinkCalls, notifications>>
       \/ StoreRaisesFrom(r, "handler", locals)

\* orchestrator.py 196: increment_sync_job_progress(job_id, failed=1), so
\* processed takes its default.
exec_loop_error_progress(r) ==
    /\ run[r].pc = "loop_error_progress"
    /\ \/ /\ jobs' = increment_sync_job_progress(jobs, run[r].job_id, DefaultProcessed, 1)
          /\ run' = [ run EXCEPT ![r] = AtNote(run[r], run[r].i + 1) ]
          /\ UNCHANGED <<retry, call, inc, syncState, logs, credentials, clock, abort, aborts, gw,
                         faults, keepCalls, sinkCalls, notifications>>
       \/ StoreRaises(r, "handler")

\* orchestrator.py 201-205.
exec_finalize(r) ==
    /\ run[r].pc = "finalize"
    /\ \/ /\ jobs' = update_sync_job(jobs, run[r].job_id,
                        [ NoUpdate EXCEPT !.status = Some("completed"),
                                          !.completed_at = Some(clock) ])
          /\ run' = Goto(r, "log_completed")
          /\ UNCHANGED <<retry, call, inc, syncState, logs, credentials, clock, abort, aborts, gw,
                         faults, keepCalls, sinkCalls, notifications>>
       \/ StoreRaises(r, "handler")

\* orchestrator.py 207-221.
exec_log_completed(r) ==
    /\ run[r].pc = "log_completed"
    /\ \/ /\ ~add_sync_log_raises(jobs, run[r].job_id)
          /\ logs' = add_sync_log(logs, run[r].job_id, "INFO", "Sync completed", None)
          /\ run' = [ run EXCEPT ![r].pc = "done", ![r].returned = Some("completed") ]
          /\ UNCHANGED <<retry, call, inc, jobs, syncState, credentials, clock, abort, aborts, gw,
                         faults, keepCalls, sinkCalls, notifications>>
       \/ StoreRaises(r, "handler")

\* orchestrator.py 223-232: the top-level except; an error here ends the task.
exec_handler(r) ==
    /\ run[r].pc = "handler"
    /\ \/ /\ jobs' = update_sync_job(jobs, run[r].job_id,
                        [ NoUpdate EXCEPT !.status = Some("failed"),
                                          !.error_message = run[r].error_msg,
                                          !.completed_at = Some(clock) ])
          /\ run' = Goto(r, "handler_log")
          /\ UNCHANGED <<retry, call, inc, syncState, logs, credentials, clock, abort, aborts, gw,
                         faults, keepCalls, sinkCalls, notifications>>
       \/ StoreRaises(r, "crashed")

\* orchestrator.py 234.
exec_handler_log(r) ==
    /\ run[r].pc = "handler_log"
    /\ \/ /\ ~add_sync_log_raises(jobs, run[r].job_id)
          /\ logs' = add_sync_log(logs, run[r].job_id, "ERROR", "Sync failed", None)
          /\ run' = Goto(r, "handler_notify")
          /\ UNCHANGED <<retry, call, inc, jobs, syncState, credentials, clock, abort, aborts, gw,
                         faults, keepCalls, sinkCalls, notifications>>
       \/ StoreRaises(r, "crashed")

\* A variant of the handler that returns failed without a notification.
exec_handler_notify_silent(r) ==
    /\ run[r].pc = "handler_notify"
    /\ run' = [ run EXCEPT ![r].pc = "done", ![r].returned = Some("failed") ]
    /\ UNCHANGED <<retry, call, inc, jobs, syncState, logs, credentials, clock, abort, aborts, gw,
                   faults, keepCalls, sinkCalls, notifications>>

\* orchestrator.py 237-248.
exec_handler_notify(r) ==
    /\ run[r].pc = "handler_notify"
    /\ notifications' = Append(notifications,
                               [ job_id |-> run[r].job_id, stage |-> "sync_execution" ])
    /\ run' = [ run EXCEPT ![r].pc = "done", ![r].returned = Some("failed") ]
    /\ UNCHANGED <<retry, call, inc, jobs, syncState, logs, credentials, clock, abort, aborts, gw,
                   faults, keepCalls, sinkCalls>>

\* ------------------------------------------------------------------ abort_sync

\* A variant of the guard that leaves out 'cancelled'.
CannotAbort_without_cancelled(status) == status \in {"completed", "failed"}

\* sync_service/main.py 359: the statuses abort_sync refuses.
CannotAbort(status) == status \in {"completed", "failed", "cancelled"}

\* A variant that also resets the progress counters of the cancelled job.
CancelJob_resets_progress(js, job_id, now) ==
    update_sync_job(js, job_id,
        [ NoUpdate EXCEPT !.status = Some("cancelled"),
                          !.error_message = Some("Job cancelled by user"),
                          !.completed_at = Some(now),
                          !.processed_notes = Some(0),
                          !.failed_notes = Some(0) ])

\* A variant that does not stamp completed_at.
CancelJob_without_completed_at(js, job_id, now) ==
    update_sync_job(js, job_id,
        [ NoUpdate EXCEPT !.status = Some("cancelled"),
                          !.error_message = Some("Job cancelled by user") ])

\* sync_service/main.py 366-371.
CancelJob(js, job_id, now) ==
    update_sync_job(js, job_id,
        [ NoUpdate EXCEPT !.status = Some("cancelled"),
                          !.error_message = Some("Job cancelled by user"),
                          !.completed_at = Some(now) ])

\* sync_service/main.py 373-377.
CancelLog(lg, job_id) ==
    add_sync_log(lg, job_id, "WARNING", "Sync job cancelled by user", None)

\* POST /internal/sync/abort/{job_id}, sync_service/main.py 339-385.  The
\* handler has no await: it reads the job, checks it, writes it and logs
\* without a suspension point, so it is one step.
abort_sync ==
    /\ aborts < MaxAborts
    /\ aborts' = aborts + 1
    /\ \E job_id \in JobIds :
         LET sync_job == get_sync_job(jobs, job_id) IN
         \/ /\ sync_job = None
            /\ abort' = [ job_id |-> job_id, code |-> "404 not found", status |-> "" ]
            /\ UNCHANGED <<jobs, logs>>
         \/ /\ sync_job # None
            /\ CannotAbort(sync_job[1].status)
            /\ abort' = [ job_id |-> job_id, code |-> "400 cannot abort",
                          status |-> sync_job[1].status ]
            /\ UNCHANGED <<jobs, logs>>
         \/ /\ sync_job # None
            /\ ~CannotAbort(sync_job[1].status)
            /\ jobs' = CancelJob(jobs, job_id, clock)
            /\ logs' = CancelLog(logs, job_id)
            /\ abort' = [ job_id |-> job_id, code |-> "200", status |-> "cancelled" ]
    /\ UNCHANGED <<retry, call, inc, syncState, credentials, clock, run, gw, faults,
                   keepCalls, sinkCalls, notifications>>

\* ------------------------------------------------------------------ api gateway start_sync

\* uuid4(): an id no job row and no request carries yet.
FreshJobIds ==
    { job_id \in JobIds :
        /\ job_id \notin DOMAIN jobs
        /\ \A r \in Runs : run[r].pc # "idle" => run[r].job_id # job_id }

\* api_gateway/main.py 330-346.
gateway_create ==
    /\ gw.pc = "idle"
    /\ \A r \in Runs : run[r].pc = "idle"
    /\ \E job_id \in FreshJobIds, user_id \in Users, full_sync \in BOOLEAN :
         /\ jobs' = create_sync_job(jobs, job_id, user_id, full_sync, clock)
         /\ gw' = [ gw EXCEPT !.pc = "forward", !.job_id = job_id, !.user_id = user_id,
                              !.full_sync = full_sync ]
    /\ UNCHANGED <<retry, call, inc, syncState, logs, credentials, clock, run, abort, aborts, faults,
                   keepCalls, sinkCalls, notifications>>

\* The sync service received the gateway's request and queued the background task.
Scheduled(r) ==
    [ run EXCEPT ![r].pc = "create", ![r].job_id = gw.job_id,
                 ![r].user_id = gw.user_id, ![r].full_sync = gw.full_sync ]

\* api_gateway/main.py 349-389: the awaited POST /internal/sync/execute.  A 200
\* means the task was queued; a non-200 means it was not; after a timeout or a
\* connection error it may or may not have been.
gateway_forward ==
    /\ gw.pc = "forward"
    /\ \/ \E r \in Runs :
            /\ run[r].pc = "idle"
            /\ run' = Scheduled(r)
            /\ gw' = [ gw EXCEPT !.pc = "done", !.response = Some("queued") ]
       \/ /\ run' = run
          /\ gw' = [ gw EXCEPT !.pc = "mark_failed", !.response = Some("Sync Service error") ]
       \/ /\ \/ run' = run
             \/ \E r \in Runs : run[r].pc = "idle" /\ run' = Scheduled(r)
          /\ \/ gw' = [ gw EXCEPT !.pc = "done", !.response = Some("queued") ]
             \/ gw' = [ gw EXCEPT !.pc = "mark_failed",
                                  !.response = Some("Failed to connect to Sync Service") ]
    /\ UNCHANGED <<retry, call, inc, jobs, syncState, logs, credentials, clock, abort, aborts, faults,
                   keepCalls, sinkCalls, notifications>>

\* api_gateway/main.py 363-367 and 381-385.
gateway_mark_failed ==
    /\ gw.pc = "mark_failed"
    /\ jobs' = update_sync_job(jobs, gw.job_id,
                  [ NoUpdate EXCEPT !.status = Some("failed"),
                                    !.error_message = gw.response ])
    /\ gw' = [ gw EXCEPT !.pc = "done" ]
    /\ UNCHANGED <<retry, call, inc, syncState, logs, credentials, clock, run, abort, aborts, faults,
                   keepCalls, sinkCalls, notifications>>

\* ------------------------------------------------------------------ specification

\* ------------------------------------------------------------------ direct calls

\* The record of a direct call, after the one recorded before it.
Recorded(op, args, response) ==
    [ n |-> call.n + 1, op |-> op, args |-> args, response |-> response,
      prev |-> [ op |-> call.op, args |-> call.args ] ]

\* Page ids a caller of upsert_sync_state passes.
StorePages == { [by |-> "client", idx |-> 1], [by |-> "client", idx |-> 2] }

\* db_operations.py 258-285, called with any job_id: the commit of a second
\* row with the same primary key raises and writes nothing.
call_create_sync_job ==
    /\ call.n < MaxCalls
    /\ \E job_id \in JobIds, user_id \in {"alice"}, full_sync \in {FALSE} :
         IF create_sync_job_raises(jobs, job_id)
         THEN /\ jobs' = jobs
              /\ call' = Recorded("create_sync_job", [ job_id |-> job_id ], "IntegrityError")
         ELSE /\ jobs' = create_sync_job(jobs, job_id, user_id, full_sync, clock)
              /\ call' = Recorded("create_sync_job", [ job_id |-> job_id ], "created")
    /\ UNCHANGED <<retry, inc, syncState, logs, credentials, clock, run, abort, aborts, gw,
                   faults, keepCalls, sinkCalls, notifications>>

\* db_operations.py 287-335, called as the services call it: the flip to
\* running, the total after the fetch, a failure with its message, a completion.
call_update_sync_job ==
    /\ call.n < MaxCalls
    /\ \E job_id \in JobIds :
       \E u \in { [ NoUpdate EXCEPT !.status = Some("running") ],
                  [ NoUpdate EXCEPT !.total_notes = Some(MaxNotes) ],
                  [ NoUpdate EXCEPT !.status = Some("failed"),
                                    !.error_message = Some("Sync Service error"),
                                    !.completed_at = Some(clock) ],
                  [ NoUpdate EXCEPT !.status = Some("completed"),
                                    !.completed_at = Some(clock) ] } :
         /\ jobs' = update_sync_job(jobs, job_id, u)
         /\ call' = Recorded("update_sync_job", [ job_id |-> job_id, u |-> u ],
                             get_sync_job(jobs', job_id))
    /\ UNCHANGED <<retry, inc, syncState, logs, credentials, clock, run, abort, aborts, gw,
                   faults, keepCalls, sinkCalls, notifications>>

\* db_operations.py 71-114, called with any values; it returns the row.
call_upsert_sync_state ==
    /\ call.n < MaxCalls
    /\ \E user_id \in Users, keep_note_id \in {"n1"}, notion_page_id \in StorePages,
          keep_modified_at \in {1, 2} :
         /\ syncState' = upsert_sync_state(syncState, user_id, keep_note_id,
                                           notion_page_id, keep_modified_at, clock)
         /\ call' = Recorded("upsert_sync_state",
                             [ user_id |-> user_id, keep_note_id |-> keep_note_id,
                               notion_page_id |-> notion_page_id,
                               keep_modified_at |-> keep_modified_at ],
                             get_sync_record(syncState', user_id, keep_note_id))
    /\ clock' = clock + 1
    /\ UNCHANGED <<retry, inc, jobs, logs, credentials, run, abort, aborts, gw,
                   faults, keepCalls, sinkCalls, notifications>>

\* A variant that leaves error_message out of the response.
SyncStatusResponse_without_error(sync_job) ==
    [ code |-> "200",
      status |-> sync_job.status,
      progress |-> [ total_notes |-> sync_job.total_notes,
                     processed_notes |-> sync_job.processed_notes,
                     failed_notes |-> sync_job.failed_notes ],
      created_at |-> isoformat(sync_job.created_at),
      completed_at |-> IF sync_job.completed_at # None
                       THEN Some(isoformat(sync_job.completed_at[1]))
                       ELSE None,
      error_message |-> None ]

\* sync_service/main.py 300-311: SyncStatusResponse built from the row.
SyncStatusResponse(sync_job) ==
    [ code |-> "200",
      status |-> sync_job.status,
      progress |-> [ total_notes |-> sync_job.total_notes,
                     processed_notes |-> sync_job.processed_notes,
                     failed_notes |-> sync_job.failed_notes ],
      created_at |-> isoformat(sync_job.created_at),
      completed_at |-> IF sync_job.completed_at # None
                       THEN Some(isoformat(sync_job.completed_at[1]))
                       ELSE None,
      error_message |-> sync_job.error_message ]

\* sync_service/main.py 290-311: what a status query for job_id answers on the
\* table js.
StatusAnswer(js, job_id) ==
    LET sync_job == get_sync_job(js, job_id) IN
    IF sync_job = None
    THEN [ code |-> "404 not found" ]
    ELSE SyncStatusResponse(sync_job[1])

\* GET /internal/sync/status/{job_id}, sync_service/main.py 280-311.
get_sync_status ==
    /\ call.n < MaxCalls
    /\ \E job_id \in JobIds \cup {"unknown"} :
         call' = Recorded("get_sync_status", [ job_id |-> job_id ],
                          StatusAnswer(jobs, job_id))
    /\ UNCHANGED <<retry, inc, jobs, syncState, logs, credentials, clock, run, abort, aborts, gw,
                   faults, keepCalls, sinkCalls, notifications>>

\* db_operations.py 439-445: increment_sync_job_progress opens a session and
\* loads the row; without a row it returns None.
inc_read(c) ==
    /\ inc[c].pc = "idle"
    /\ inc[c].calls < MaxIncrements
    /\ \E job_id \in JobIds, processed \in 0..1, failed \in 0..1 :
         /\ processed + failed >= 1
         /\ LET sync_job == get_sync_job(jobs, job_id) IN
            inc' = [ inc EXCEPT ![c] =
                       [ @ EXCEPT !.pc = IF sync_job = None THEN "idle" ELSE "write",
                                  !.job_id = job_id, !.processed = processed,
                                  !.failed = failed, !.row = sync_job,
                                  !.calls = @ + 1 ] ]
    /\ UNCHANGED <<retry, call, jobs, syncState, logs, credentials, clock, run, abort, aborts, gw,
                   faults, keepCalls, sinkCalls, notifications>>

\* db_operations.py 447-450: the counters of the loaded object are increased
\* in memory and the commit writes the attributes that changed, as values.
WriteIncrement(js, job_id, sync_job, processed, failed) ==
    [ js EXCEPT ![job_id] =
        [ @ EXCEPT !.processed_notes = IF processed # 0
                                       THEN sync_job.processed_notes + processed ELSE @,
                   !.failed_notes = IF failed # 0
                                    THEN sync_job.failed_notes + failed ELSE @ ] ]

\* db_operations.py 447-452.
inc_write(c) ==
    /\ inc[c].pc = "write"
    /\ jobs' = WriteIncrement(jobs, inc[c].job_id, inc[c].row[1], inc[c].processed,
                              inc[c].failed)
    /\ inc' = [ inc EXCEPT ![c] =
                  [ @ EXCEPT !.pc = "idle", !.row = None,
                             !.added_processed = @ + inc[c].processed,
                             !.added_failed = @ + inc[c].failed ] ]
    /\ UNCHANGED <<retry, call, syncState, logs, credentials, clock, run, abort, aborts, gw,
                   faults, keepCalls, sinkCalls, notifications>>

\* Every step of a run of execute_sync, from the endpoint that queues it.
RunNext ==
    \/ \E r \in Runs : execute_endpoint(r)
    \/ \E r \in Runs : exec_create_job(r)
    \/ \E r \in Runs : exec_set_running(r)
    \/ \E r \in Runs : exec_log_start(r)
    \/ \E r \in Runs : exec_load_credentials(r)
    \/ \E r \in Runs : exec_no_credentials(r)
    \/ \E r \in Runs : exec_no_credentials_log(r)
    \/ \E r \in Runs : exec_no_credentials_notify(r)
    \/ \E r \in Runs : exec_window(r)
    \/ \E r \in Runs : exec_log_fetch(r)
    \/ \E r \in Runs : exec_keep_auth(r)
    \/ \E r \in Runs : exec_keep_notes(r)
    \/ \E r \in Runs : exec_set_total(r)
    \/ \E r \in Runs : exec_log_fetched(r)
    \/ \E r \in Runs : exec_lookup(r)
    \/ \E r \in Runs : exec_sink(r)
    \/ \E r \in Runs : exec_upsert(r)
    \/ \E r \in Runs : exec_note_ok_log(r)
    \/ \E r \in Runs : exec_note_error_log(r)
    \/ \E r \in Runs : exec_progress(r)
    \/ \E r \in Runs : exec_loop_error_log(r)
    \/ \E r \in Runs : exec_loop_error_progress(r)
    \/ \E r \in Runs : exec_finalize(r)
    \/ \E r \in Runs : exec_log_completed(r)
    \/ \E r \in Runs : exec_handler(r)
    \/ \E r \in Runs : exec_handler_log(r)
    \/ \E r \in Runs : exec_handler_notify(r)

Next ==
    \/ RunNext
    \/ abort_sync
    \/ gateway_create
    \/ gateway_forward
    \/ gateway_mark_failed

Spec == Init /\ [][Next]_vars

\* The same program under the scheduling the services give it: a background
\* task that can take a step takes it (FastAPI runs the tasks added with
\* add_task, sync_service/main.py 239-244), and the gateway's handler runs on.
\* Requests of clients (a start, an abort) may or may not come.
SpecFair ==
    /\ Init /\ [][Next]_vars
    /\ WF_vars(RunNext)
    /\ WF_vars(gateway_forward)
    /\ WF_vars(gateway_mark_failed)

\* The sync service alone: start requests reach its execute endpoint directly.
NextDirect ==
    \/ RunNext
    \/ abort_sync

SpecDirect == Init /\ [][NextDirect]_vars

\* The store and the status endpoint under direct calls, one at a time.
NextStore ==
    \/ call_create_sync_job
    \/ call_update_sync_job
    \/ call_upsert_sync_state
    \/ get_sync_status

SpecStore == Init /\ [][NextStore]_vars

\* Calls of increment_sync_job_progress by callers that run concurrently,
\* each in a session of its own.
NextIncrement ==
    \/ call_create_sync_job
    \/ \E c \in Callers : inc_read(c)
    \/ \E c \in Callers : inc_write(c)

SpecIncrement == Init /\ [][NextIncrement]_vars

\* ------------------------------------------------------------------ notion_writer rate limit

\* writer.py 32 and 103: both page functions are wrapped with max_retries=3.
max_retries == 3

WrappedFunctions == {"create_page", "update_page"}

\* rate_limit.py 76.
default_wait == 1

\* What one await of the wrapped function gives: its result, or an error.  An
\* APIResponseError carries a code and a status, and its response may carry a
\* Retry-After header.
AttemptOutcomes ==
    { [ type |-> "result", code |-> "", status |-> 200, retry_after |-> None ] }
    \cup [ type : {"APIResponseError"}, code : {"rate_limited"}, status : {429},
           retry_after : {None, Some(2), Some(0 - 1)} ]
    \cup { [ type |-> "APIResponseError", code |-> "", status |-> 429, retry_after |-> None ],
           [ type |-> "APIResponseError", code |-> "validation_error", status |-> 400,
             retry_after |-> Some(2) ],
           [ type |-> "Exception", code |-> "", status |-> 0, retry_after |-> None ] }

\* rate_limit.py 35-37.
IsRateLimit(e) ==
    e.type = "APIResponseError" /\ (e.code = "rate_limited" \/ e.status = 429)

\* A variant that gives up one retry early.
Exhausted_one_early(retries) == retries >= max_retries

\* rate_limit.py 40.
Exhausted(retries) == retries > max_retries

\* rate_limit.py 65-106: the header's value, or the default.
extract_retry_after(e) ==
    IF e.retry_after # None THEN e.retry_after[1] ELSE default_wait

\* The decorated function is called: rate_limit.py 28-29.
wrapper_call ==
    /\ retry.pc = "idle"
    /\ \E func \in WrappedFunctions :
         retry' = [ retry EXCEPT !.pc = "loop", !.func = func, !.retries = 0 ]
    /\ UNCHANGED <<jobs, syncState, logs, credentials, clock, run, abort, aborts, gw,
                   faults, keepCalls, sinkCalls, notifications, call, inc>>

\* One pass of the while loop, rate_limit.py 31-59, up to the sleep: the result
\* of attempt n is named by n.
wrapper_attempt ==
    /\ retry.pc = "loop"
    /\ IF retry.retries <= max_retries
       THEN \E e \in AttemptOutcomes :
              LET tried == [ retry EXCEPT !.attempts = Append(@, e) ] IN
              IF e.type = "result"
              THEN retry' = [ tried EXCEPT !.pc = "returned",
                                           !.returned = Some(Len(tried.attempts)) ]
              ELSE IF IsRateLimit(e)
              THEN IF Exhausted(retry.retries + 1)
                   THEN retry' = [ tried EXCEPT !.pc = "raised", !.retries = @ + 1,
                                                !.raised = Some(e) ]
                   ELSE retry' = [ tried EXCEPT !.pc = "sleep", !.retries = @ + 1,
                                                !.retry_after = Some(extract_retry_after(e)) ]
              ELSE retry' = [ tried EXCEPT !.pc = "raised", !.raised = Some(e) ]
       ELSE retry' = [ retry EXCEPT !.pc = "raised",
                                    !.raised = Some([ type |-> "Exception",
                                                      code |-> "Failed after retries",
                                                      status |-> 0,
                                                      retry_after |-> None ]) ]
    /\ UNCHANGED <<jobs, syncState, logs, credentials, clock, run, abort, aborts, gw,
                   faults, keepCalls, sinkCalls, notifications, call, inc>>

\* rate_limit.py 52-53: time.sleep raises ValueError on a negative length.
wrapper_sleep ==
    /\ retry.pc = "sleep"
    /\ IF retry.retry_after[1] < 0
       THEN retry' = [ retry EXCEPT !.pc = "raised",
                                    !.raised = Some([ type |-> "ValueError", code |-> "",
                                                      status |-> 0, retry_after |-> None ]) ]
       ELSE retry' = [ retry EXCEPT !.pc = "loop", !.retry_after = None ]
    /\ UNCHANGED <<jobs, syncState, logs, credentials, clock, run, abort, aborts, gw,
                   faults, keepCalls, sinkCalls, notifications, call, inc>>

NextRetry ==
    \/ wrapper_call
    \/ wrapper_attempt
    \/ wrapper_sleep

SpecRetry == Init /\ [][NextRetry]_vars

\* ------------------------------------------------------------------ properties

RunCalls(r) == { c \in sinkCalls : c.run = r }
FailedIdx(r) == { c.idx : c \in { d \in RunCalls(r) : ~d.ok } }
KeepCallsOf(r) == { c \in keepCalls : c.run = r }

\* C1: partial failure isolation.  A run that fetched N notes and met no store
\* error returns completed; every note got exactly one sink call, whatever
\* happened to the notes before it; with F the notes whose sink call failed,
\* the job is completed with total_notes = N, processed_notes = N - |F|,
\* failed_notes = |F|, and SyncState was upserted for exactly the notes outside F.
C1_PartialFailureIsolation ==
    \A r \in Runs :
        (run[r].pc = "done" /\ run[r].fetched /\ ~run[r].store_failed) =>
            LET N == Len(run[r].notes)
                F == FailedIdx(r)
                job == jobs[run[r].job_id]
                WrittenFor(id) ==
                    \E row \in syncState \ InitialRows :
                        row.user_id = run[r].user_id /\ row.keep_note_id = id
            IN  /\ run[r].returned = Some("completed")
                /\ { c.idx : c \in RunCalls(r) } = 1..N
                /\ Cardinality(RunCalls(r)) = N
                /\ job.status = "completed"
                /\ job.total_notes = N
                /\ job.processed_notes = N - Cardinality(F)
                /\ job.failed_notes = Cardinality(F)
                /\ run[r].upserted = (1..N) \ F
                /\ \A i \in 1..N :
                       WrittenFor(run[r].notes[i].id) <=>
                           \E k \in (1..N) \ F : run[r].notes[k].id = run[r].notes[i].id

\* C1 witness: a finished run of two notes whose first sink call failed and
\* whose second succeeded.
C1_Witness ==
    \E r \in Runs :
        /\ run[r].pc = "done" /\ run[r].fetched /\ ~run[r].store_failed
        /\ Len(run[r].notes) = 2
        /\ FailedIdx(r) = {1}
        /\ run[r].upserted = {2}

HasCredentialRecord(user_id) == \E c \in credentials : c.user_id = user_id

\* C2: no side effects on missing credentials.  A run for a user without a
\* Credential record never calls the Keep extractor (auth or notes) nor the
\* Notion writer; when it returns it returns failed, and (no store error met)
\* the job is failed with the message that names the missing credentials.
C2_NoSideEffectsWithoutCredentials ==
    \A r \in Runs :
        (run[r].pc # "idle" /\ ~HasCredentialRecord(run[r].user_id)) =>
            /\ KeepCallsOf(r) = {}
            /\ RunCalls(r) = {}
            /\ run[r].pc \notin {"keep_auth", "keep_notes", "sink"}
            /\ run[r].pc = "done" => run[r].returned = Some("failed")
            /\ (run[r].pc = "done" /\ ~run[r].store_failed) =>
                   /\ jobs[run[r].job_id].status = "failed"
                   /\ jobs[run[r].job_id].error_message = Some("No credentials found for user")

\* C2 witness: a run for a user without credentials has returned.
C2_Witness ==
    \E r \in Runs :
        /\ run[r].pc = "done" /\ ~run[r].store_failed
        /\ ~HasCredentialRecord(run[r].user_id)
        /\ jobs[run[r].job_id].status = "failed"

FetchErrors ==
    { Some("Keep authentication failed"), Some("Failed to fetch notes from Keep"),
      Some("transport error") }

\* C3: a fetch failure is a job-level hard stop.  After the auth call or the
\* notes call failed the run only finalizes: the Notion writer is never called,
\* no SyncState row is created or changed, the three counters stay 0, and (no
\* store error met) the job is failed with the fetch error as its message and
\* an ERROR log is appended.
C3_FetchFailureIsHardStop ==
    \A r \in Runs :
        run[r].fetch_failed =>
            LET job == jobs[run[r].job_id] IN
            /\ run[r].pc \in {"handler", "handler_log", "handler_notify", "done", "crashed"}
            /\ RunCalls(r) = {}
            /\ run[r].upserted = {}
            /\ syncState \in InitialSyncStates
            /\ job.total_notes = 0 /\ job.processed_notes = 0 /\ job.failed_notes = 0
            /\ run[r].pc = "done" => run[r].returned = Some("failed")
            /\ (run[r].pc \in {"handler_log", "handler_notify", "done"} /\ ~run[r].store_failed) =>
                   /\ job.status = "failed"
                   /\ job.error_message \in FetchErrors
                   /\ job.completed_at # None
            /\ (run[r].pc \in {"handler_notify", "done"} /\ ~run[r].store_failed) =>
                   BagIn([ job_id |-> run[r].job_id, level |-> "ERROR",
                           message |-> "Sync failed", keep_note_id |-> None ], logs)

\* C3 witness: a run whose notes call failed has returned, for a user who has
\* SyncState rows.
C3_Witness ==
    \E r \in Runs :
        /\ run[r].fetch_failed /\ run[r].pc = "done" /\ ~run[r].store_failed
        /\ \E c \in KeepCallsOf(r) : c.endpoint = "notes"
        /\ get_sync_state_by_user(syncState, run[r].user_id) # {}

\* C4: no job is left dangling.  When a run of execute_sync has ended, by
\* returning or by an error that left it, its job is in a terminal status.
C4_NoJobLeftDangling ==
    \A r \in Runs :
        (run[r].pc \in {"done", "crashed"} /\ run[r].job_id \in DOMAIN jobs) =>
            jobs[run[r].job_id].status \in TerminalStatuses

\* C5: the terminal status of a job is set exactly once: no step takes a job
\* from one terminal status to a different terminal status.
C5_TerminalStatusSetOnce ==
    [][ \A j \in DOMAIN jobs :
            (jobs[j].status \in TerminalStatuses /\ jobs'[j].status \in TerminalStatuses)
                => jobs'[j].status = jobs[j].status ]_vars

\* C6: status transitions are ordered queued, running, terminal: no step takes
\* a job from a terminal status back to running or queued, nor from running
\* back to queued.
C6_StatusOrder ==
    [][ \A j \in DOMAIN jobs :
            /\ ~(jobs[j].status \in TerminalStatuses /\ jobs'[j].status \in {"running", "queued"})
            /\ ~(jobs[j].status = "running" /\ jobs'[j].status = "queued") ]_vars

\* C7: completed_at is non-null if and only if the status is terminal, for
\* every job row, whoever wrote it.
C7_CompletedAtIffTerminal ==
    \A j \in DOMAIN jobs :
        (jobs[j].completed_at # None) <=> (jobs[j].status \in TerminalStatuses)

\* An abort request was answered in this step.
AbortAnswered == aborts' = aborts + 1

\* C8: abort guard, rejected case.  An abort of a job whose status is terminal
\* is answered 400 with that status in the message, changes no job row and
\* appends no log; an abort of an unknown job_id is answered 404 and creates
\* nothing.
C8_AbortRejected ==
    [][ AbortAnswered =>
          LET j == abort'.job_id IN
          /\ j \notin DOMAIN jobs =>
                /\ abort'.code = "404 not found"
                /\ jobs' = jobs /\ logs' = logs /\ syncState' = syncState
          /\ (j \in DOMAIN jobs /\ jobs[j].status \in TerminalStatuses) =>
                /\ abort'.code = "400 cannot abort"
                /\ abort'.status = jobs[j].status
                /\ jobs' = jobs /\ logs' = logs /\ syncState' = syncState ]_vars

\* C8 witness: an abort of a cancelled job was refused.
C8_Witness ==
    /\ abort.code = "400 cannot abort"
    /\ abort.status = "cancelled"
    /\ jobs[abort.job_id].status = "cancelled"

\* C9: abort guard, accepted case.  An abort of a queued or running job sets
\* status = cancelled, error_message = "Job cancelled by user" and completed_at,
\* changes nothing else of the row (the three counters included) and appends
\* exactly one log row, a WARNING of that job.
C9_AbortAccepted ==
    [][ (AbortAnswered /\ abort'.job_id \in DOMAIN jobs
           /\ jobs[abort'.job_id].status \in {"queued", "running"}) =>
          LET j == abort'.job_id IN
          /\ abort'.code = "200"
          /\ jobs'[j].completed_at # None
          /\ jobs' = [ jobs EXCEPT ![j] =
                         [ @ EXCEPT !.status = "cancelled",
                                    !.error_message = Some("Job cancelled by user"),
                                    !.completed_at = jobs'[j].completed_at ] ]
          /\ \E entry \in BagToSet(logs') :
                /\ entry.job_id = j /\ entry.level = "WARNING"
                /\ logs' = logs (+) SetToBag({ entry }) ]_vars

\* C9 witness: a running job that had already counted a note was cancelled.
C9_Witness ==
    /\ abort.code = "200"
    /\ jobs[abort.job_id].status = "cancelled"
    /\ jobs[abort.job_id].total_notes > 0
    /\ jobs[abort.job_id].processed_notes + jobs[abort.job_id].failed_notes > 0

\* C10: incremental window.  The notes request of a full sync carries no
\* modified_since, whatever SyncState holds; that of an incremental sync
\* carries the largest last_synced_at of the user's SyncState rows, and none
\* if the user has no row.
C10_IncrementalWindow ==
    [][ \A r \in Runs :
          (run[r].pc = "keep_notes" /\ run'[r].pc # "keep_notes") =>
            LET rows == { row \in syncState : row.user_id = run[r].user_id }
                sent == { c \in keepCalls' : c.run = r /\ c.endpoint = "notes" }
            IN  /\ sent # {}
                /\ \A c \in sent :
                     IF run[r].full_sync \/ rows = {}
                     THEN c.modified_since = None
                     ELSE \E row \in rows :
                            /\ c.modified_since = Some(isoformat(row.last_synced_at))
                            /\ \A other \in rows : other.last_synced_at <= row.last_synced_at ]_vars

\* C10 witness: an incremental notes request for a user with two SyncState
\* rows carried the later of their last_synced_at.
C10_Witness ==
    \E r \in Runs, c \in keepCalls :
        /\ c.run = r /\ c.endpoint = "notes" /\ ~run[r].full_sync
        /\ Cardinality({ row.last_synced_at : row \in get_sync_state_by_user(syncState, run[r].user_id) }) >= 2
        /\ c.modified_since = Some(isoformat(2))

\* C11: empty-fetch short-circuit.  A run whose notes request returned an empty
\* list never calls the Notion writer and writes no SyncState row; its job
\* counters stay 0, and (no store error met) it ends completed with
\* total_notes = processed_notes = failed_notes = 0.
C11_EmptyFetchShortCircuit ==
    \A r \in Runs :
        (run[r].fetched /\ run[r].notes = <<>>) =>
            LET job == jobs[run[r].job_id] IN
            /\ RunCalls(r) = {}
            /\ run[r].upserted = {}
            /\ syncState \in InitialSyncStates
            /\ job.total_notes = 0 /\ job.processed_notes = 0 /\ job.failed_notes = 0
            /\ (run[r].pc = "done" /\ ~run[r].store_failed) =>
                   /\ job.status = "completed"
                   /\ run[r].returned = Some("completed")

\* C11 witness: a run that fetched no note has returned.
C11_Witness ==
    \E r \in Runs :
        /\ run[r].fetched /\ run[r].notes = <<>>
        /\ run[r].pc = "done" /\ ~run[r].store_failed
        /\ jobs[run[r].job_id].status = "completed"

\* C12: once total_notes has been recorded, processed_notes + failed_notes
\* never exceeds total_notes: every fetched note adds 1 to one of the two
\* counters and nothing to the other, in whichever branch of the loop.
C12_CountersWithinTotal ==
    \A r \in Runs :
        (run[r].fetched /\ run[r].pc # "set_total") =>
            LET job == jobs[run[r].job_id] IN
            job.processed_notes + job.failed_notes <= job.total_notes

\* C13: at most one destination page per source note per user.  sync_state
\* holds at most one row per (user_id, keep_note_id), and (no row is ever
\* deleted here) the Notion writer's create succeeds at most once for a note
\* of a user, a note id that occurs twice in the fetched list included.
C13_OnePagePerNote ==
    /\ \A a, b \in syncState :
           (a.user_id = b.user_id /\ a.keep_note_id = b.keep_note_id) => a = b
    /\ \A r \in Runs : \A c, d \in RunCalls(r) :
           (c.op = "create" /\ d.op = "create" /\ c.ok /\ d.ok
              /\ c.keep_note_id = d.keep_note_id) => c = d

\* A direct call of operation op was answered in this step.
Called(op) == call'.n = call.n + 1 /\ call'.op = op

\* C14: idempotent state upsert.  After every call of upsert_sync_state, first
\* or repeated, with the same or with other values, sync_state holds exactly
\* one row for the (user_id, keep_note_id) of the call, with the
\* notion_page_id and keep_modified_at of that call; the rows of other pairs
\* are the ones that were there.
C14_UpsertIdempotent ==
    [][ Called("upsert_sync_state") =>
          LET a == call'.args
              SamePair(row) == row.user_id = a.user_id /\ row.keep_note_id = a.keep_note_id
              rows == { row \in syncState' : SamePair(row) }
          IN  /\ Cardinality(rows) = 1
              /\ \A row \in rows : /\ row.notion_page_id = a.notion_page_id
                                   /\ row.keep_modified_at = a.keep_modified_at
              /\ { row \in syncState' : ~SamePair(row) } = { row \in syncState : ~SamePair(row) } ]_vars

\* C14 witness: two calls in a row for the same pair with different
\* notion_page_id and keep_modified_at; one row holds the values of the second.
C14_Witness ==
    /\ call.op = "upsert_sync_state" /\ call.prev.op = "upsert_sync_state"
    /\ call.prev.args.user_id = call.args.user_id
    /\ call.prev.args.keep_note_id = call.args.keep_note_id
    /\ call.prev.args.notion_page_id # call.args.notion_page_id
    /\ call.prev.args.keep_modified_at # call.args.keep_modified_at
    /\ \E row \in syncState :
          /\ row.user_id = call.args.user_id /\ row.keep_note_id = call.args.keep_note_id
          /\ row.notion_page_id = call.args.notion_page_id

\* C15: create job is idempotent on job_id.  When execute_sync calls
\* create_sync_job for a job_id that already has a row, the call does not
\* raise: the run goes on to its next statement and sync_jobs is unchanged.
C15_CreateJobIdempotent ==
    [][ \A r \in Runs :
          (run[r].pc = "create" /\ run'[r].pc # "create"
             /\ run[r].job_id \in DOMAIN jobs /\ faults' = faults) =>
                /\ run'[r].pc = "set_running"
                /\ jobs' = jobs ]_vars

RECURSIVE SumAdded(_, _)
SumAdded(cs, field) ==
    IF cs = {} THEN 0
    ELSE LET c == CHOOSE x \in cs : TRUE
         IN  inc[c][field] + SumAdded(cs \ {c}, field)

\* C16: progress increments are atomic adds.  When no call of
\* increment_sync_job_progress is in flight, the stored processed_notes and
\* failed_notes of a job equal their initial 0 plus the deltas of all the
\* calls completed for it, concurrent or not.
C16_IncrementsNotLost ==
    \A j \in DOMAIN jobs :
        (\A c \in Callers : inc[c].pc = "idle") =>
            /\ jobs[j].processed_notes = SumAdded(Callers, "added_processed")
            /\ jobs[j].failed_notes = SumAdded(Callers, "added_failed")

\* C17: get_status is a pure read.  A status request changes no job, log or
\* SyncState row; for a known job_id the response carries the row's status,
\* its three counters, created_at, completed_at and error_message; for an
\* unknown job_id it is 404.
C17_GetStatusPureRead ==
    [][ Called("get_sync_status") =>
          LET j == call'.args.job_id
              resp == call'.response
          IN  /\ jobs' = jobs /\ logs' = logs /\ syncState' = syncState
              /\ IF j \in DOMAIN jobs
                 THEN /\ resp.code = "200"
                      /\ resp.status = jobs[j].status
                      /\ resp.progress.total_notes = jobs[j].total_notes
                      /\ resp.progress.processed_notes = jobs[j].processed_notes
                      /\ resp.progress.failed_notes = jobs[j].failed_notes
                      /\ fromisoformat(resp.created_at) = jobs[j].created_at
                      /\ (resp.completed_at = None) <=> (jobs[j].completed_at = None)
                      /\ resp.completed_at # None =>
                             fromisoformat(resp.completed_at[1]) = jobs[j].completed_at[1]
                      /\ resp.error_message = jobs[j].error_message
                 ELSE resp.code = "404 not found" ]_vars

\* C17 witness: the status of a failed job whose total is not 0 was read, with
\* its error message and completion time.
C17_Witness ==
    /\ call.op = "get_sync_status"
    /\ call.response.code = "200"
    /\ call.response.status = "failed"
    /\ call.response.error_message = Some("Sync Service error")
    /\ call.response.completed_at # None
    /\ call.response.progress.total_notes > 0

\* C18: create-versus-update decision.  The request sent to the Notion writer
\* for a note is an update of the page of the SyncState row of
\* (user_id, note.id) when that row exists, and otherwise a create in the
\* database of the user's credentials; full_sync plays no part.
C18_CreateVersusUpdate ==
    [][ \A r \in Runs :
          (run[r].pc = "sink" /\ run'[r].pc # "sink") =>
            LET note == run[r].notes[run[r].i]
                rows == { row \in syncState : /\ row.user_id = run[r].user_id
                                              /\ row.keep_note_id = note.id }
                sent == { c \in sinkCalls' : c.run = r /\ c.idx = run[r].i }
            IN  /\ Cardinality(sent) = 1
                /\ \A c \in sent :
                     /\ c.keep_note_id = note.id
                     /\ IF rows # {}
                        THEN /\ c.op = "update"
                             /\ \E row \in rows : c.page_id = Some(row.notion_page_id)
                        ELSE /\ c.op = "create"
                             /\ \E cred \in credentials :
                                  /\ cred.user_id = run[r].user_id
                                  /\ c.database_id = Some(cred.notion_database_id) ]_vars

\* C18 witness: a full sync updated the page of a note that had a SyncState
\* row and created a page for a note that had none.
C18_Witness ==
    \E r \in Runs : \E c, d \in RunCalls(r) :
        /\ run[r].full_sync
        /\ c.op = "update" /\ c.page_id = Some([by |-> "earlier", idx |-> 0])
        /\ d.op = "create" /\ d.keep_note_id # c.keep_note_id

\* C19: effect of a successful sink call.  After a create or update that
\* returned success the run goes on to the upsert; the upsert leaves one
\* SyncState row for (user_id, note.id) holding the page id the call returned
\* and the note's modified timestamp; the log written next is one INFO row
\* tagged with the note id; and the progress increment adds 1 to
\* processed_notes and 0 to failed_notes.
C19_SinkSuccessEffect ==
    [][ \A r \in Runs :
          LET note == run[r].notes[run[r].i]
              j == run[r].job_id
          IN
          /\ (run[r].pc = "sink" /\ run'[r].pc # "sink"
                /\ \E c \in sinkCalls' : c.run = r /\ c.idx = run[r].i /\ c.ok) =>
                 /\ run'[r].pc = "upsert"
                 /\ run'[r].notion_page_id # None
          /\ (run[r].pc = "upsert" /\ run'[r].pc = "note_ok_log") =>
                 LET rows == { row \in syncState' : /\ row.user_id = run[r].user_id
                                                    /\ row.keep_note_id = note.id }
                 IN  /\ Cardinality(rows) = 1
                     /\ \A row \in rows :
                          /\ Some(row.notion_page_id) = run[r].notion_page_id
                          /\ isoformat(row.keep_modified_at) = note.modified_at
          /\ (run[r].pc = "note_ok_log" /\ run'[r].pc = "progress") =>
                 /\ run'[r].result = "success"
                 /\ \E entry \in BagToSet(logs') :
                      /\ entry.job_id = j /\ entry.level = "INFO"
                      /\ entry.keep_note_id = Some(note.id)
                      /\ logs' = logs (+) SetToBag({ entry })
          /\ (run[r].pc = "progress" /\ run[r].result = "success"
                /\ run'[r].pc \in {"lookup", "finalize"}) =>
                 /\ jobs'[j].processed_notes = jobs[j].processed_notes + 1
                 /\ jobs'[j].failed_notes = jobs[j].failed_notes ]_vars

\* C19 witness: the first note of a run was created in Notion, recorded in
\* sync_state, logged and counted as processed.
C19_Witness ==
    \E r \in Runs :
        /\ run[r].i = 2 /\ run[r].pc \in {"lookup", "finalize"}
        /\ 1 \in run[r].upserted
        /\ \E c \in RunCalls(r) : c.idx = 1 /\ c.ok /\ c.op = "create"
        /\ \E row \in syncState :
              /\ row.user_id = run[r].user_id /\ row.keep_note_id = run[r].notes[1].id
              /\ row.notion_page_id = [by |-> r, idx |-> 1]
        /\ jobs[run[r].job_id].processed_notes = 1
        /\ jobs[run[r].job_id].failed_notes = 0

\* C20: abort is advisory only.  A run whose job an abort has cancelled still
\* leaves the loop only after every fetched note had its sink call, its
\* SyncState upsert when the call succeeded, and its progress increment
\* (no store error met): the run never stops early on the job's status.
C20_AbortIsAdvisory ==
    \A r \in Runs :
        (/\ run[r].fetched /\ ~run[r].store_failed
         /\ run[r].pc \in {"finalize", "log_completed", "done"}
         /\ jobs[run[r].job_id].error_message = Some("Job cancelled by user")) =>
            LET N == Len(run[r].notes)
                job == jobs[run[r].job_id]
            IN  /\ { c.idx : c \in RunCalls(r) } = 1..N
                /\ run[r].upserted = { c.idx : c \in { d \in RunCalls(r) : d.ok } }
                /\ job.processed_notes + job.failed_notes = N
                /\ job.processed_notes = Cardinality(run[r].upserted)

\* C20 witness: a job was cancelled before the first upsert of its run, and
\* the run has since written the SyncState rows of both of its notes, counted
\* both as processed and reached the end of the loop.
C20_Witness ==
    \E r \in Runs :
        LET job == jobs[run[r].job_id] IN
        /\ run[r].fetched /\ ~run[r].store_failed /\ run[r].pc = "finalize"
        /\ job.status = "cancelled"
        /\ Len(run[r].notes) = 2 /\ run[r].notes[1].id # run[r].notes[2].id
        /\ \A i \in 1..2 :
              \E row \in syncState \ InitialRows :
                  /\ row.user_id = run[r].user_id /\ row.keep_note_id = run[r].notes[i].id
                  /\ row.last_synced_at >= job.completed_at[1]
        /\ job.processed_notes = 2

\* The positions of execute_sync between the write of total_notes
\* (orchestrator.py 144) and the return of the summary (214-221).
AfterTotal ==
    { "log_fetched", "lookup", "sink", "upsert", "note_ok_log", "note_error_log",
      "progress", "loop_error_log", "loop_error_progress", "finalize", "log_completed" }

\* C21: counters of a job are monotone.  total_notes is written by one step of
\* a run only, the one between the fetch and the first note, with the number of
\* fetched notes, and no later step changes it; processed_notes and
\* failed_notes never decrease: no step of execute_sync, of abort or of the
\* gateway resets or lowers a counter of an existing job.
C21_CountersMonotone ==
    [][ \A j \in DOMAIN jobs :
          /\ j \in DOMAIN jobs'
          /\ jobs'[j].processed_notes >= jobs[j].processed_notes
          /\ jobs'[j].failed_notes >= jobs[j].failed_notes
          /\ jobs'[j].total_notes # jobs[j].total_notes =>
                \E r \in Runs :
                    /\ run[r].job_id = j
                    /\ run[r].pc = "set_total" /\ run'[r].pc = "log_fetched"
          /\ \A r \in Runs :
                (run[r].job_id = j /\ run'[r].pc \in AfterTotal) =>
                    jobs'[j].total_notes = Len(run'[r].notes) ]_vars

\* C21 witness: a job that an abort cancelled while its run was in the loop
\* and whose run then finished: it still carries the total written after the
\* fetch and one count for each of its two notes.
C21_Witness ==
    \E r \in Runs :
        /\ run[r].pc = "done" /\ run[r].returned = Some("completed")
        /\ run[r].job_id \in DOMAIN jobs
        /\ jobs[run[r].job_id].error_message = Some("Job cancelled by user")
        /\ jobs[run[r].job_id].total_notes = 2
        /\ jobs[run[r].job_id].processed_notes = 1
        /\ jobs[run[r].job_id].failed_notes = 1

\* The critical-error notifications requested for a job, by position.
NotificationsOf(job_id) ==
    { k \in 1..Len(notifications) : notifications[k].job_id = job_id }

\* C22: a critical-error notification is requested exactly once for each run
\* that returns failed: with stage credential_loading when the user has no
\* credentials, with stage sync_execution when the fetch failed or another
\* error reached the top-level handler.  None is requested for a run that
\* returns completed, nor by a run that has not returned failed.
C22_NotifyOncePerFailedRun ==
    \A r \in Runs :
        LET sent == NotificationsOf(run[r].job_id) IN
        /\ sent # {} => run[r].pc = "done" /\ run[r].returned = Some("failed")
        /\ (run[r].pc = "done" /\ run[r].returned = Some("completed")) => sent = {}
        /\ (run[r].pc = "done" /\ run[r].returned = Some("failed")) =>
              /\ Cardinality(sent) = 1
              /\ \A k \in sent :
                    notifications[k].stage =
                        IF run[r].credentials = None /\ ~run[r].store_failed
                        THEN "credential_loading"
                        ELSE "sync_execution"

\* C22 witness: a run whose fetch failed has returned failed, and the one
\* notification of its job carries stage sync_execution.
C22_Witness ==
    \E r \in Runs :
        /\ run[r].pc = "done" /\ run[r].returned = Some("failed")
        /\ run[r].fetch_failed /\ ~run[r].store_failed
        /\ jobs[run[r].job_id].status = "failed"
        /\ notifications = << [ job_id |-> run[r].job_id, stage |-> "sync_execution" ] >>

\* The rows of sync_state that belong to other users than user_id.
RowsOfOthers(ss, user_id) == { row \in ss : row.user_id # user_id }

\* C23: SyncState is partitioned by user.  On every table a run reads or
\* writes, get_sync_state_by_user and get_sync_record for a user return rows of
\* that user only (and of the asked note only), and upsert_sync_state for a
\* user leaves the rows of every other user as they are, also when another
\* user has a row with the same keep_note_id; no step of a run for a user
\* changes a row of another user, and the row a run looked up is a row of its
\* own user.
C23_PartitionedByUser ==
    [][ \A r \in Runs :
          /\ run[r].pc \in {"window", "lookup", "upsert"} =>
                \A user_id \in Users, keep_note_id \in NoteIds :
                    /\ \A row \in get_sync_state_by_user(syncState, user_id) :
                          row.user_id = user_id
                    /\ \A found \in { get_sync_record(syncState, user_id, keep_note_id) } :
                          found # None =>
                              /\ found[1] \in syncState
                              /\ found[1].user_id = user_id
                              /\ found[1].keep_note_id = keep_note_id
                    /\ \A notion_page_id \in StorePages :
                          RowsOfOthers(upsert_sync_state(syncState, user_id, keep_note_id,
                                                         notion_page_id, 1, clock),
                                       user_id)
                              = RowsOfOthers(syncState, user_id)
          /\ run'[r] # run[r] =>
                /\ RowsOfOthers(syncState', run'[r].user_id)
                      = RowsOfOthers(syncState, run'[r].user_id)
                /\ run'[r].existing # None =>
                      run'[r].existing[1].user_id = run'[r].user_id ]_vars

\* C23 witness: a run for alice has written the row of note n1 while bob has
\* a row for the note with the same id, and bob's row is as it was.
C23_Witness ==
    \E r \in Runs :
        /\ run[r].user_id = "alice"
        /\ \E i \in run[r].upserted : run[r].notes[i].id = "n1"
        /\ \E row \in syncState :
              /\ row.user_id = "alice" /\ row.keep_note_id = "n1"
              /\ row.notion_page_id.by = r
        /\ Row("bob", "n1", "other", 2, 1) \in syncState

\* C24: rate-limit retry in the page sink.  A call wrapped by
\* handle_rate_limit(max_retries=3) makes at most 4 attempts; every attempt
\* before the last met a rate-limit error; when it returns, it returns the
\* result of its last attempt, the first that succeeded; an attempt that met
\* any other error is the last and that error is raised; a rate-limit error is
\* raised only by the 4th attempt, and the 4th attempt that meets one raises it.
C24_RateLimitRetry ==
    LET n == Len(retry.attempts)
        last == retry.attempts[n]
    IN  /\ max_retries = 3
        /\ n <= 4
        /\ \A k \in 1..(n - 1) : IsRateLimit(retry.attempts[k])
        /\ retry.pc = "returned" =>
              /\ n >= 1 /\ last.type = "result"
              /\ retry.returned = Some(n)
        /\ (n >= 1 /\ last.type = "result") => retry.pc = "returned"
        /\ (n >= 1 /\ last.type # "result" /\ ~IsRateLimit(last)) =>
              /\ retry.pc = "raised" /\ retry.raised = Some(last)
        /\ (n = 4 /\ IsRateLimit(last)) =>
              /\ retry.pc = "raised" /\ retry.raised = Some(last)
        /\ (retry.pc = "raised" /\ IsRateLimit(retry.raised[1])) => n = 4

\* C24 witness: four attempts met a rate-limit error and the call raised the
\* fourth.
C24_Witness ==
    /\ retry.pc = "raised"
    /\ Len(retry.attempts) = 4
    /\ \A k \in 1..4 : IsRateLimit(retry.attempts[k])
    /\ retry.raised = Some(retry.attempts[4])

\* C25: a job started through the gateway runs to the end.  Once start_sync
\* has created the job row and the sync service has accepted the forwarded
\* job_id and scheduled the background run, the job eventually has a terminal
\* status.
C25_GatewayJobRuns ==
    (/\ gw.pc = "done" /\ gw.response = Some("queued")
     /\ \E r \in Runs : run[r].pc # "idle" /\ run[r].job_id = gw.job_id)
        ~> (/\ gw.job_id \in DOMAIN jobs
            /\ jobs[gw.job_id].status \in TerminalStatuses)

\* C26: a queued job is visible.  Once the execute endpoint has answered a
\* start request with a job_id and status queued, a status query for that
\* job_id answers 200 with a snapshot of the job, never 404, whichever steps
\* the background run has taken.
C26_QueuedJobIsVisible ==
    \A r \in Runs :
        run[r].pc # "idle" => StatusAnswer(jobs, run[r].job_id).code = "200"

\* C27: a failed note is picked up again.  When a run has returned, each note
\* that was in its fetch window, whose sink call failed and which has no
\* SyncState row, the note being unmodified since, passes the filter
\* of the user's next incremental run: the lower bound max(last_synced_at)
\* over the user's rows does not exclude it.
C27_FailedNoteIsRetried ==
    \A r \in Runs :
        (run[r].pc = "done" /\ run[r].returned = Some("completed")) =>
            \A i \in FailedIdx(r) :
                (/\ get_sync_record(syncState, run[r].user_id, run[r].notes[i].id) = None
                 /\ InFetchWindow(fromisoformat(run[r].notes[i].modified_at),
                                  run[r].modified_since)) =>
                    InFetchWindow(fromisoformat(run[r].notes[i].modified_at),
                                  FetchWindow(syncState, run[r].user_id, FALSE))

\* C28: error_message goes with failure.  A job whose status is completed has
\* no error_message; only a failed or a cancelled job has one, in every
\* interleaving of abort with execute_sync.
C28_ErrorMessageOnlyOnFailure ==
    \A j \in DOMAIN jobs :
        /\ jobs[j].status = "completed" => jobs[j].error_message = None
        /\ jobs[j].error_message # None => jobs[j].status \in {"failed", "cancelled"}

\* C29: the summary agrees with the durable record.  When execute_sync has
\* returned status completed and no store call of the run raised, the
\* total_notes, processed_notes and failed_notes of the job row equal the
\* total_notes, processed_count and failed_count of the returned summary (the
\* run's locals at the return).
C29_SummaryAgreesWithRecord ==
    \A r \in Runs :
        (/\ run[r].pc = "done" /\ run[r].returned = Some("completed")
         /\ ~run[r].store_failed) =>
            /\ run[r].job_id \in DOMAIN jobs
            /\ jobs[run[r].job_id].total_notes = run[r].total_notes
            /\ jobs[run[r].job_id].processed_notes = run[r].processed_count
            /\ jobs[run[r].job_id].failed_notes = run[r].failed_count

\* C29 witness: a run without a store error has returned completed with a
\* summary of two notes, one processed and one failed.
C29_Witness ==
    \E r \in Runs :
        /\ run[r].pc = "done" /\ run[r].returned = Some("completed")
        /\ ~run[r].store_failed
        /\ run[r].total_notes = 2
        /\ run[r].processed_count = 1 /\ run[r].failed_count = 1
        /\ jobs[run[r].job_id].processed_notes = 1

====
